---- MODULE Spec2Model ----
(***************************************************************************)
(* RandomAttackFactory (hyperion/torch/adv_attacks/random_attack_factory)  *)
(* as a state machine: the constructor, and the two sampling entry points  *)
(* _sample_attack_args and sample_attack, one step per statement that      *)
(* draws from torch's process-wide generator.                              *)
(*                                                                         *)
(* Floats are IEEE-754 doubles, each named by its place in the list Double *)
(* of the doubles the explored samplers compute with; Python's + - * and   *)
(* math.log, math.exp are the tables of their results on those doubles.    *)
(*                                                                         *)
(* Further specifications over the same variables: FilterSpec applies      *)
(* RandomAttackFactory.filter_args to keyword arguments, TwinSpec runs two *)
(* samplers from one state of the random source, and LoadSpec steps        *)
(* through XVector.load (hyperion/torch/seq_embed/xvector).                *)
(***************************************************************************)
EXTENDS Integers, Sequences, FiniteSets, TLC

VARIABLES
    sampler,     \* the RandomAttackFactory objects constructed: <<>> or <<self>>
    rngDraws,    \* values drawn so far from torch's process-wide generator
    calls,       \* sampling calls started so far
    pc,          \* statement the running call is at, "idle" between calls
    entry,       \* entry point of the running (or last) call
    model,       \* the model argument of sample_attack
    heap,        \* the dict objects alive: id -> contents
    args_ref,    \* id of attack_args of the running (or last) call
    ret_ref,     \* id of the dict the last completed call returned, 0 if none
    af_kwargs,   \* keyword arguments this call gave AF.create, {} before that
    raised,      \* exception that ended the last call, "none" if it returned
    \* RandomAttackFactory.filter_args
    fa_prefix,   \* its prefix argument: <<>> for None, or <<string>>
    fa_kwargs,   \* the keyword arguments it is called with
    fa_out,      \* <<>> before the call, then <<what the call came to>>
    \* XVector.load
    ld_pc,       \* statement load is at
    ld_given,    \* the cfg mapping as load got it
    ld_cfg,      \* the cfg mapping, as load has changed it so far
    ld_state_dict,   \* the state_dict load works with, "None" if none
    ld_k,        \* position of the del loop in the value it iterates
    ld_encoder_net,  \* the encoder TorchNALoader.load returned, "None" before
    ld_model,    \* <<>>, or <<the call that made the model, and the model>>
    ld_raised    \* exception that ended load, "none" if none

samplerVars == <<sampler, rngDraws, calls, pc, entry, model, heap,
                 args_ref, ret_ref, af_kwargs, raised>>

cliVars == <<fa_prefix, fa_kwargs, fa_out>>

loadVars == <<ld_pc, ld_given, ld_cfg, ld_state_dict, ld_k, ld_encoder_net, ld_model,
              ld_raised>>

vars == <<samplerVars, cliVars, loadVars>>

----------------------------------------------------------------------------
(* Bounds *)

\* Number of distinct raw values one draw of the generator can produce
\* (2^24 for torch.rand on float32).
RawRes == 3

\* Sampling calls explored per sampler.
MaxCalls == 2

Raw == 0 .. (RawRes - 1)

----------------------------------------------------------------------------
(* Floats *)

\* Every IEEE-754 double the samplers explored compute with, by its Python
\* repr, in increasing order.  A float of the model is the position of its
\* double in this list, so that = < <= on floats are those of the doubles.
Double ==
    <<"-11.512925464970229", "-10.937279191721718", "-10.489554251530755",
      "-10.361632918473205", "-9.785986645224694", "-9.466183038091282",
      "-9.210340371976184", "-8.442811916148322", "-8.05904782547916",
      "-7.419440611212337", "-6.907755278982137", "-6.332109005733625",
      "-5.372698367326418", "-4.605170185988091", "-2.3025850929940455",
      "-1.3862943611198906", "-1.3832760354722284", "-1.3832760354722282",
      "-1.0397207708399179", "-1.0", "-0.9241962682897881", "-0.75",
      "-0.6931471805599453", "-0.6666666865348816", "-0.6065037829899521",
      "-0.5917809035329042", "-0.5579921404959565", "-0.5391144645877815",
      "-0.5198603854199589", "-0.5", "-0.4904146265058631",
      "-0.46209813414489403", "-0.4332169878499658", "-0.43321698784996576",
      "-0.42283710043196776", "-0.389048349478822", "-0.3850817486156176",
      "-0.3850817486156175", "-0.34657359027997264", "-0.3465735902799726",
      "-0.3333333432674408", "-0.2876820724517809", "-0.25",
      "-0.23104908772984278", "-0.23104904641505128",
      "-0.23104904641505125", "-0.1875", "-0.17328679513998635",
      "-0.1666666716337204", "-0.140625", "-0.1250000037252903", "-0.125",
      "-0.09375", "-0.0833333358168602", "-0.07701631667128972",
      "-0.06250000186264515", "-0.0625", "-0.046875", "0.0",
      "9.999999999999997e-06", "1e-05", "1.7782794100389212e-05",
      "2.7825595719367836e-05", "3.16227766016838e-05",
      "5.6234132519034893e-05", "7.742637771377019e-05",
      "9.999999999999991e-05", "0.00021544348871551516",
      "0.00031622776601683783", "0.0005994843965875404", "0.001",
      "0.0010000000000000002", "0.0017782794100389236",
      "0.0022500000000000003", "0.0030000000894069676",
      "0.0032500000000000003", "0.004000000089406968",
      "0.0045000000000000005", "0.004641589682991224",
      "0.0055000000000000005", "0.006000000178813935",
      "0.006750000000000001", "0.007000000178813935",
      "0.007750000000000001", "0.009000000000000001", "0.01",
      "0.010000000000000004", "0.02", "0.046875", "0.0625",
      "0.06250000186264515", "0.0833333358168602", "0.08664339756999306",
      "0.08664339756999317", "0.09375", "0.1", "0.10000000000000002",
      "0.1013662770270411", "0.109375", "0.1249999962747097", "0.125",
      "0.12500000186264515", "0.1250000037252903", "0.13515504006398876",
      "0.140625", "0.1458333283662796", "0.1458333358168602",
      "0.15403271597216384", "0.15625", "0.1666666716337204",
      "0.17328679513998632", "0.17328679513998635", "0.18749999813735485",
      "0.1875", "0.1875000037252903", "0.2027325540540822", "0.203125",
      "0.22314355131420976", "0.2291666641831398", "0.2291666716337204",
      "0.23104904641505125", "0.23104906707244702", "0.23104908772984278",
      "0.23104908772984284", "0.25", "0.25075572134473756",
      "0.2507557213447376", "0.25075572134473767", "0.25993019270997947",
      "0.2599301927099795", "0.2703100801279775", "0.3040988310811233",
      "0.3080654319443277", "0.3080654319443278", "0.3125",
      "0.3333333134651184", "0.3333333432674408", "0.3465735902799726",
      "0.34657359027997264", "0.3465735902799727", "0.4054651081081644",
      "0.462098134144894", "0.46209813414489403", "0.5",
      "0.5198603854199589", "0.5452538663326288", "0.5533409598501607",
      "0.5723571235820827", "0.5756462732485113", "0.5832645251430477",
      "0.5946035575013605", "0.6123724356957946", "0.6161308638886556",
      "0.625", "0.6484197773255048", "0.6551853538303108",
      "0.6666666567325592", "0.6666666865348816", "0.6777015027073836",
      "0.6803950125806899", "0.68039501258069", "0.6931471805599453",
      "0.7071067811865476", "0.75", "0.7797905781299383",
      "0.7937005041230522", "0.7937005369146237", "0.8408964152537145",
      "0.9241962682897881", "0.9241962682897882", "0.9258747462893545",
      "1.0", "1.0233712134394732", "1.0397207708399179",
      "1.0905077326652575", "1.1512925464970225", "1.151292546497023",
      "1.189207115002721", "1.25", "1.2599210325437482",
      "1.2599210585704357", "1.259921084597124", "1.3862943611198906",
      "1.414213562373095", "1.5", "1.5874010738292474", "1.666666716337204",
      "1.681792830507429", "1.7269388197455338", "1.7269388197455344",
      "2.0", "2.046742426878946", "2.0467424268789465", "2.302585092994045",
      "2.302585092994046", "2.5", "3.0701135488219053",
      "3.0701135488219062", "3.333333432674408", "3.453877639491069",
      "3.75", "4.093484853757892", "4.605170185988092", "5.0",
      "5.1808164592366035", "6.140227097643811", "6.907755278982138",
      "9.210340371976184">>

\* the float written repr in Python
Float(repr) == CHOOSE i \in 1 .. Len(Double) : Double[i] = repr

Zero == Float("0.0")

One == Float("1.0")

\* The arithmetic of the platform on these doubles.  Python's - * + are
\* IEEE-754 operations, rounded to nearest; math.log and math.exp are the C
\* library's (glibc, x86-64), which may be off by one unit in the last
\* place.  <<x, y>> in LogPairs: math.log(x) is y.
LogPairs ==
    {<<60, 1>>, <<61, 1>>, <<67, 7>>, <<68, 8>>, <<72, 11>>, <<79, 13>>,
     <<87, 14>>, <<96, 15>>, <<97, 15>>, <<126, 17>>, <<127, 18>>,
     <<144, 23>>, <<163, 40>>, <<164, 42>>, <<167, 45>>, <<172, 59>>,
     <<179, 118>>, <<182, 124>>, <<184, 138>>, <<191, 162>>}

\* <<x, y>>: math.exp(x) is y
ExpPairs ==
    {<<1, 60>>, <<2, 62>>, <<3, 63>>, <<4, 64>>, <<5, 65>>, <<6, 66>>,
     <<7, 67>>, <<8, 68>>, <<9, 69>>, <<10, 70>>, <<11, 72>>, <<12, 73>>,
     <<13, 79>>, <<14, 87>>, <<15, 97>>, <<17, 127>>, <<18, 128>>,
     <<23, 144>>, <<25, 146>>, <<26, 147>>, <<27, 148>>, <<28, 150>>,
     <<29, 151>>, <<31, 152>>, <<33, 155>>, <<34, 155>>, <<35, 156>>,
     <<36, 159>>, <<37, 160>>, <<38, 161>>, <<39, 163>>, <<40, 163>>,
     <<44, 166>>, <<45, 167>>, <<46, 167>>, <<48, 168>>, <<55, 171>>,
     <<59, 172>>, <<93, 175>>, <<111, 178>>, <<118, 179>>, <<121, 180>>,
     <<122, 181>>, <<123, 182>>, <<124, 182>>, <<138, 184>>, <<139, 184>>,
     <<143, 186>>, <<145, 188>>, <<162, 191>>}

\* <<a, b, y>>: a - b is y
SubTriples ==
    {<<1, 1, 59>>, <<7, 1, 194>>, <<8, 1, 198>>, <<11, 1, 203>>,
     <<13, 1, 206>>, <<14, 1, 207>>, <<15, 1, 208>>, <<15, 15, 59>>,
     <<17, 17, 59>>, <<18, 18, 59>>, <<23, 23, 59>>, <<23, 162, 16>>,
     <<40, 23, 140>>, <<40, 40, 59>>, <<42, 23, 141>>, <<45, 23, 142>>,
     <<45, 45, 59>>, <<59, 23, 162>>, <<59, 59, 59>>, <<59, 172, 20>>,
     <<86, 71, 85>>, <<90, 125, 47>>, <<90, 135, 43>>, <<101, 101, 59>>,
     <<114, 114, 59>>, <<118, 118, 59>>, <<124, 23, 170>>, <<124, 124, 59>>,
     <<125, 90, 114>>, <<125, 125, 59>>, <<135, 90, 125>>, <<138, 23, 174>>,
     <<138, 138, 59>>, <<144, 144, 59>>, <<162, 23, 183>>, <<162, 59, 162>>,
     <<162, 162, 59>>, <<172, 59, 172>>, <<204, 59, 204>>}

\* <<a, b, y>>: a * b is y
MulTriples ==
    {<<16, 59, 59>>, <<16, 125, 39>>, <<16, 137, 32>>, <<16, 144, 23>>,
     <<16, 158, 21>>, <<16, 164, 19>>, <<20, 59, 59>>, <<20, 125, 43>>,
     <<20, 137, 41>>, <<20, 144, 30>>, <<20, 158, 24>>, <<20, 164, 22>>,
     <<43, 59, 59>>, <<43, 125, 57>>, <<43, 137, 54>>, <<43, 144, 52>>,
     <<43, 158, 49>>, <<43, 164, 47>>, <<47, 59, 59>>, <<47, 125, 58>>,
     <<47, 137, 56>>, <<47, 144, 53>>, <<47, 158, 51>>, <<47, 164, 50>>,
     <<59, 59, 59>>, <<59, 125, 59>>, <<59, 137, 59>>, <<59, 144, 59>>,
     <<59, 158, 59>>, <<59, 164, 59>>, <<85, 59, 59>>, <<85, 125, 74>>,
     <<85, 137, 75>>, <<85, 144, 78>>, <<85, 158, 81>>, <<85, 164, 82>>,
     <<114, 59, 59>>, <<114, 125, 89>>, <<114, 137, 91>>, <<114, 144, 95>>,
     <<114, 158, 103>>, <<114, 164, 105>>, <<125, 59, 59>>,
     <<125, 125, 90>>, <<125, 137, 92>>, <<125, 144, 101>>,
     <<125, 158, 110>>, <<125, 164, 114>>, <<140, 59, 59>>,
     <<140, 125, 94>>, <<140, 144, 112>>, <<140, 164, 130>>,
     <<141, 59, 59>>, <<141, 125, 98>>, <<141, 137, 104>>,
     <<141, 144, 116>>, <<141, 158, 131>>, <<141, 164, 132>>,
     <<142, 59, 59>>, <<142, 137, 108>>, <<142, 158, 133>>, <<162, 59, 59>>,
     <<162, 125, 111>>, <<162, 137, 122>>, <<162, 144, 139>>,
     <<162, 158, 143>>, <<162, 164, 145>>, <<170, 59, 59>>,
     <<170, 137, 134>>, <<170, 158, 153>>, <<172, 59, 59>>,
     <<172, 125, 125>>, <<172, 137, 137>>, <<172, 144, 144>>,
     <<172, 158, 158>>, <<172, 164, 164>>, <<174, 59, 59>>,
     <<174, 125, 129>>, <<174, 144, 145>>, <<174, 164, 165>>,
     <<183, 59, 59>>, <<183, 125, 139>>, <<183, 137, 143>>,
     <<183, 144, 162>>, <<183, 158, 169>>, <<183, 164, 174>>,
     <<194, 59, 59>>, <<194, 125, 149>>, <<194, 144, 176>>,
     <<194, 164, 189>>, <<198, 59, 59>>, <<198, 137, 173>>,
     <<198, 158, 193>>, <<203, 59, 59>>, <<203, 125, 177>>,
     <<203, 144, 195>>, <<203, 164, 200>>, <<204, 59, 59>>,
     <<204, 125, 179>>, <<204, 137, 187>>, <<204, 144, 196>>,
     <<204, 158, 199>>, <<204, 164, 201>>, <<206, 59, 59>>,
     <<206, 137, 192>>, <<206, 158, 202>>, <<207, 59, 59>>,
     <<207, 125, 190>>, <<207, 144, 200>>, <<207, 164, 205>>,
     <<208, 59, 59>>, <<208, 125, 195>>, <<208, 137, 197>>,
     <<208, 144, 203>>, <<208, 158, 206>>, <<208, 164, 207>>}

\* <<a, b, y>>: a + b is y
AddTriples ==
    {<<19, 162, 40>>, <<21, 162, 44>>, <<22, 172, 125>>, <<23, 162, 59>>,
     <<24, 172, 136>>, <<30, 172, 144>>, <<32, 162, 121>>, <<39, 162, 139>>,
     <<41, 172, 157>>, <<43, 172, 164>>, <<47, 135, 101>>, <<49, 135, 106>>,
     <<50, 125, 99>>, <<51, 125, 100>>, <<52, 135, 114>>, <<53, 125, 109>>,
     <<54, 135, 119>>, <<56, 125, 113>>, <<57, 135, 125>>, <<58, 125, 117>>,
     <<59, 1, 1>>, <<59, 15, 15>>, <<59, 17, 17>>, <<59, 18, 18>>,
     <<59, 23, 23>>, <<59, 40, 40>>, <<59, 45, 45>>, <<59, 59, 59>>,
     <<59, 71, 71>>, <<59, 90, 90>>, <<59, 101, 101>>, <<59, 114, 114>>,
     <<59, 118, 118>>, <<59, 124, 124>>, <<59, 125, 125>>, <<59, 135, 135>>,
     <<59, 138, 138>>, <<59, 144, 144>>, <<59, 162, 162>>, <<59, 172, 172>>,
     <<74, 71, 76>>, <<75, 71, 77>>, <<78, 71, 80>>, <<81, 71, 83>>,
     <<82, 71, 84>>, <<89, 90, 99>>, <<90, 90, 101>>, <<91, 90, 102>>,
     <<92, 90, 107>>, <<94, 23, 25>>, <<95, 90, 109>>, <<98, 23, 26>>,
     <<101, 90, 114>>, <<103, 90, 115>>, <<104, 23, 27>>, <<105, 90, 117>>,
     <<108, 23, 28>>, <<110, 90, 120>>, <<111, 23, 29>>, <<111, 59, 111>>,
     <<112, 23, 29>>, <<114, 90, 125>>, <<116, 23, 31>>, <<122, 59, 122>>,
     <<125, 59, 125>>, <<129, 23, 33>>, <<130, 23, 34>>, <<131, 23, 35>>,
     <<132, 23, 36>>, <<133, 23, 37>>, <<134, 23, 38>>, <<137, 59, 137>>,
     <<139, 23, 39>>, <<139, 59, 139>>, <<143, 23, 46>>, <<143, 59, 143>>,
     <<144, 59, 144>>, <<145, 23, 48>>, <<145, 59, 145>>, <<149, 1, 2>>,
     <<153, 23, 55>>, <<158, 59, 158>>, <<162, 23, 59>>, <<164, 59, 164>>,
     <<165, 23, 93>>, <<169, 23, 123>>, <<173, 1, 3>>, <<174, 23, 138>>,
     <<176, 1, 4>>, <<177, 1, 4>>, <<179, 59, 179>>, <<187, 59, 187>>,
     <<189, 1, 5>>, <<190, 1, 5>>, <<192, 1, 6>>, <<193, 1, 6>>,
     <<195, 1, 7>>, <<196, 59, 196>>, <<197, 1, 8>>, <<199, 59, 199>>,
     <<200, 1, 9>>, <<201, 59, 201>>, <<202, 1, 10>>, <<203, 1, 11>>,
     <<205, 1, 12>>, <<206, 1, 13>>, <<207, 1, 14>>}

Unary(pairs) ==
    [x \in {p[1] : p \in pairs} |-> (CHOOSE p \in pairs : p[1] = x)[2]]

Binary(triples) ==
    [ab \in {<<t[1], t[2]>> : t \in triples} |->
        (CHOOSE t \in triples : <<t[1], t[2]>> = ab)[3]]

LogTable == Unary(LogPairs)

ExpTable == Unary(ExpPairs)

SubTable == Binary(SubTriples)

MulTable == Binary(MulTriples)

AddTable == Binary(AddTriples)

\* math.log(x), x > 0
Log(x) == LogTable[x]

\* math.exp(x)
Exp(x) == ExpTable[x]

\* a - b
Sub(a, b) == SubTable[<<a, b>>]

\* a * b
Mul(a, b) == MulTable[<<a, b>>]

\* a + b
Add(a, b) == AddTable[<<a, b>>]

Min(a, b) == IF a <= b THEN a ELSE b

----------------------------------------------------------------------------
(* torch *)

\* torch.randint(low, high, size=(1,)) raises RuntimeError unless low < high
RandintRaises(low, high) == low >= high

\* torch.randint(low, high, size=(1,)).item() on the raw draw
TorchRandint(low, high, raw) == low + (raw % (high - low))

\* torch.rand(size=(1,)).item() on the raw draw: the float32 nearest to
\* raw / RawRes, taken to a Python float.  One row for each RawRes.
RandTable ==
    (3 :> <<59, 137, 158>>) @@ (4 :> <<59, 125, 144, 164>>)

TorchRand(raw) == RandTable[RawRes][raw + 1]

----------------------------------------------------------------------------
(* The static helpers *)

\* _choice drawing from high=1: always the first element
_choice_first(n, raw) == TorchRandint(0, 1, raw)

_choice(n, raw) == TorchRandint(0, n, raw)

\* _randint with high one too far: max_val + 1 can be returned
_randint_wide(min_val, max_val, raw) == TorchRandint(min_val, max_val + 2, raw)

_randint(min_val, max_val, raw) == TorchRandint(min_val, max_val + 1, raw)

\* _uniform without the "+ min_val"
_uniform_no_offset(min_val, max_val, raw) ==
    Mul(Sub(max_val, min_val), TorchRand(raw))

\* line 83: (max_val - min_val) * torch.rand(size=(1,)).item() + min_val
_uniform(min_val, max_val, raw) ==
    Add(Mul(Sub(max_val, min_val), TorchRand(raw)), min_val)

\* math.log raises ValueError on a non-positive argument
LogRaises(min_val, max_val) == min_val <= Zero \/ max_val <= Zero

\* lines 88-90
_log_uniform(min_val, max_val, raw) ==
    LET log_x == Add(Mul(Sub(Log(max_val), Log(min_val)), TorchRand(raw)),
                     Log(min_val))
    IN  Exp(log_x)

----------------------------------------------------------------------------
(* Constructor arguments explored *)

\* A sampler whose every range is a single point; the families below open
\* one group of ranges at a time.  Floats are written Float("repr");
\* arguments the sampler only stores or copies are kept as written.
Pinned ==
    [attack_types |-> <<"fgsm">>,
     min_eps |-> One, max_eps |-> One,
     min_snr |-> "30", max_snr |-> "60",
     min_alpha |-> Float("0.5"), max_alpha |-> Float("0.5"),
     norms |-> <<"inf">>,
     random_eps |-> FALSE,
     min_num_random_init |-> 0, max_num_random_init |-> 0,
     min_confidence |-> Zero, max_confidence |-> Zero,
     min_lr |-> Float("0.125"), max_lr |-> Float("0.125"),
     min_binary_search_steps |-> 9, max_binary_search_steps |-> 9,
     min_iter |-> 5, max_iter |-> 5,
     abort_early |-> TRUE,
     min_c |-> Float("0.1875"), max_c |-> Float("0.1875"),
     reduce_c |-> FALSE,
     c_incr_factor |-> "2",
     tau_decr_factor |-> "0.9",
     indep_channels |-> FALSE,
     norm_time |-> FALSE,
     time_dim |-> "None",
     use_snr |-> FALSE,
     loss |-> "None",
     targeted |-> FALSE,
     range_min |-> "None", range_max |-> "None",
     eps_scale |-> 1]

\* <<min_eps, max_eps, min_alpha, max_alpha>>
EpsAlphaRanges ==
    {<<Float("0.5"), Float("2.0"), Float("0.5"), Float("1.5")>>,
     <<Float("0.5"), Float("2.0"), Float("2.5"), Float("2.5")>>,
         \* min_alpha > max_eps
     <<One, Float("2.0"), Float("0.5"), Float("0.75")>>,
         \* max_alpha < min_eps
     <<Float("1e-05"), Float("0.1"), Float("1e-05"), Float("0.02")>>,
         \* the defaults
     <<Float("1.25"), Float("1.25"), Float("1.5"), Float("1.5")>>,
         \* single-point ranges
     <<Float("2.0"), Float("2.0"), Float("1.25"), Float("1.25")>>,
     <<Float("0.1"), Float("0.1"), One, One>>,
     <<Float("0.5"), Float("0.5"), Float("0.1"), Float("0.1")>>,
     <<Float("0.25075572134473756"), Float("0.25075572134473756"), One, One>>,
     <<Float("2.0"), Float("0.5"), Float("0.5"), Float("0.5")>>,
         \* min_eps > max_eps
     <<Float("0.5"), Float("0.5"), Float("1.5"), Float("0.625")>>,
         \* min_alpha > max_alpha
     <<Zero, One, Float("0.5"), Float("0.5")>>}
         \* min_eps not positive

EpsAlphaArgs ==
    {[Pinned EXCEPT !.min_eps = r[1], !.max_eps = r[2],
                    !.min_alpha = r[3], !.max_alpha = r[4]] : r \in EpsAlphaRanges}

\* <<attack_types, norms>>
ListChoices ==
    {<<<<"fgsm", "pgd">>, <<"inf", "1", "2">>>>,
     <<<<"cw-l2", "iter-fgsm", "snr-fgsm">>, <<"2">>>>,
     <<<<"rand-fgsm">>, <<"1", "inf">>>>,
     <<<<>>, <<"inf">>>>}

ListArgs ==
    {[Pinned EXCEPT !.attack_types = l[1], !.norms = l[2]] : l \in ListChoices}

\* <<min_num_random_init, max_num_random_init, min_binary_search_steps,
\*   max_binary_search_steps, min_iter, max_iter>>
IntRanges ==
    {<<0, 2, 9, 9, 5, 6>>,
     <<1, 1, 1, 3, 10, 10>>,
     <<0, 1, 3, 4, 1, 2>>,
     <<0, 0, 0, 1, 0, 0>>,      \* ranges that reach 0
     <<3, 0, 9, 9, 5, 5>>,      \* min_num_random_init > max_num_random_init
     <<0, 0, 3, 1, 5, 5>>,      \* min_binary_search_steps > max_binary_search_steps
     <<0, 0, 9, 9, 10, 5>>}     \* min_iter > max_iter

IntArgs ==
    {[Pinned EXCEPT !.min_num_random_init = r[1], !.max_num_random_init = r[2],
                    !.min_binary_search_steps = r[3],
                    !.max_binary_search_steps = r[4],
                    !.min_iter = r[5], !.max_iter = r[6]] : r \in IntRanges}

\* <<min_confidence, max_confidence, min_lr, max_lr, min_c, max_c>>
FloatRanges ==
    {<<Zero, One, Float("0.125"), Float("0.125"),
       Float("0.1875"), Float("0.1875")>>,      \* confidence over [0, 1]
     <<Zero, Float("5.0"), Float("0.125"), Float("0.125"),
       Float("0.1875"), Float("0.1875")>>,      \* confidence over [0, 5]
     <<One, Zero, Float("0.125"), Float("0.125"),
       Float("0.1875"), Float("0.1875")>>,      \* min_confidence > max_confidence
     <<Float("0.5"), Float("0.5"), Float("0.0625"), Float("0.25"),
       Float("0.1875"), Float("0.1875")>>,
     <<Float("0.25"), Float("0.25"), Float("0.125"), Float("0.125"),
       Float("0.0625"), Float("0.3125")>>,
     <<Zero, One, Float("0.001"), Float("0.01"),
       Float("0.001"), Float("0.01")>>,         \* the defaults
     <<Zero, Zero, Float("0.25"), Float("0.0625"),
       Float("0.3125"), Float("0.0625")>>}      \* min_lr > max_lr, min_c > max_c

FloatArgs ==
    {[Pinned EXCEPT !.min_confidence = r[1], !.max_confidence = r[2],
                    !.min_lr = r[3], !.max_lr = r[4],
                    !.min_c = r[5], !.max_c = r[6]] : r \in FloatRanges}

\* the stored and copied arguments set away from their defaults
FlagArgs ==
    {[Pinned EXCEPT !.random_eps = TRUE, !.abort_early = FALSE,
                    !.reduce_c = TRUE, !.c_incr_factor = "3",
                    !.tau_decr_factor = "0.75", !.indep_channels = TRUE,
                    !.norm_time = TRUE, !.time_dim = "1", !.use_snr = TRUE,
                    !.loss = "ce", !.targeted = TRUE, !.range_min = "-1.0",
                    !.range_max = "1.0", !.eps_scale = 2,
                    !.min_snr = "10", !.max_snr = "20"],
     [Pinned EXCEPT !.abort_early = FALSE, !.targeted = TRUE, !.eps_scale = 2,
                    !.min_eps = Float("0.5"), !.max_eps = Float("2.0")]}

CtorArgs == EpsAlphaArgs \cup ListArgs \cup IntArgs \cup FloatArgs \cup FlagArgs

Models == {"None", "xvector"}

----------------------------------------------------------------------------
(* Objects *)

DictIds == {1, 2}

EmptyDict == [k \in {} |-> 0]

\* d[k] = v
SetItem(d, k, v) == (k :> v) @@ d

\* attack_args bound to one shared dict object instead of a new one
NewDict_shared == IF ret_ref = 0 THEN 1 ELSE ret_ref

\* `{}`: a new dict object, distinct from the one the caller still holds
NewDict == CHOOSE i \in DictIds : i # ret_ref

self == sampler[1]

attack_args == heap[args_ref]

----------------------------------------------------------------------------
(* Initial state *)

SamplerInit ==
    /\ sampler = <<>>
    /\ rngDraws = 0
    /\ calls = 0
    /\ pc = "idle"
    /\ entry = "none"
    /\ model = "None"
    /\ heap = [i \in DictIds |-> EmptyDict]
    /\ args_ref = 1
    /\ ret_ref = 0
    /\ af_kwargs = EmptyDict
    /\ raised = "none"

\* filter_args has not been called
NoFilterCall ==
    /\ fa_prefix = <<>>
    /\ fa_kwargs = EmptyDict
    /\ fa_out = <<>>

\* XVector.load has not been called
NoLoadCall ==
    /\ ld_pc = "idle"
    /\ ld_given = EmptyDict
    /\ ld_cfg = EmptyDict
    /\ ld_state_dict = "None"
    /\ ld_k = 0
    /\ ld_encoder_net = "None"
    /\ ld_model = <<>>
    /\ ld_raised = "none"

Init == SamplerInit /\ NoFilterCall /\ NoLoadCall

----------------------------------------------------------------------------
(* RandomAttackFactory.__init__: every argument is stored as given *)

__init__(args) ==
    /\ sampler = <<>>
    /\ sampler' = <<args>>
    /\ UNCHANGED <<rngDraws, calls, pc, entry, model, heap, args_ref,
                   ret_ref, af_kwargs, raised>>
    /\ UNCHANGED <<cliVars, loadVars>>

Construct == \E args \in CtorArgs : __init__(args)

----------------------------------------------------------------------------
(* Calls.  Line 94, attack_args = {}, opens each of them. *)

Enter(name, m) ==
    /\ pc = "idle"
    /\ sampler # <<>>
    /\ calls < MaxCalls
    /\ calls' = calls + 1
    /\ entry' = name
    /\ model' = m
    /\ args_ref' = NewDict
    /\ heap' = [heap EXCEPT ![NewDict] = EmptyDict]
    /\ raised' = "none"
    /\ af_kwargs' = EmptyDict
    /\ pc' = "attack_type"
    /\ UNCHANGED <<sampler, rngDraws, ret_ref>>
    /\ UNCHANGED <<cliVars, loadVars>>

CallSampleAttackArgs == Enter("_sample_attack_args", model)

CallSampleAttack == \E m \in Models : Enter("sample_attack", m)

\* An exception leaves the call; the dict it was filling is dropped.
Raise(exc) ==
    /\ raised' = exc
    /\ pc' = "idle"
    /\ heap' = [heap EXCEPT ![args_ref] = EmptyDict]
    /\ UNCHANGED <<sampler, rngDraws, calls, entry, model, args_ref,
                   ret_ref, af_kwargs>>
    /\ UNCHANGED <<cliVars, loadVars>>

\* One statement that draws once and stores into attack_args.
Store(d, next) ==
    /\ heap' = [heap EXCEPT ![args_ref] = d]
    /\ rngDraws' = rngDraws + 1
    /\ pc' = next
    /\ UNCHANGED <<sampler, calls, entry, model, args_ref, ret_ref,
                   af_kwargs, raised>>
    /\ UNCHANGED <<cliVars, loadVars>>

\* A Python list index, 0-based
Item(list, i) == list[i + 1]

----------------------------------------------------------------------------
(* _sample_attack_args, lines 95-126 *)

\* lines 95-96
DrawAttackType ==
    /\ pc = "attack_type"
    /\ IF RandintRaises(0, Len(self.attack_types))
       THEN Raise("RuntimeError")
       ELSE \E raw \in Raw :
              Store(SetItem(attack_args, "attack_type",
                            Item(self.attack_types,
                                 _choice(Len(self.attack_types), raw))),
                    "eps")

\* lines 97-98
DrawEps ==
    /\ pc = "eps"
    /\ IF LogRaises(self.min_eps, self.max_eps)
       THEN Raise("ValueError")
       ELSE \E raw \in Raw :
              Store(SetItem(attack_args, "eps",
                            _log_uniform(self.min_eps, self.max_eps, raw)),
                    "alpha")

\* lines 99-101
DrawAlpha ==
    /\ pc = "alpha"
    /\ LET eps == attack_args["eps"]
           lo == Min(eps, self.min_alpha)
           hi == Min(eps, self.max_alpha)
       IN  IF LogRaises(lo, hi)
           THEN Raise("ValueError")
           ELSE \E raw \in Raw :
                  Store(SetItem(attack_args, "alpha",
                                _log_uniform(lo, hi, raw)),
                        "norm")

\* lines 102-103
DrawNorm ==
    /\ pc = "norm"
    /\ IF RandintRaises(0, Len(self.norms))
       THEN Raise("RuntimeError")
       ELSE \E raw \in Raw :
              Store(SetItem(SetItem(attack_args, "norm",
                                    Item(self.norms, _choice(Len(self.norms), raw))),
                            "random_eps", self.random_eps),
                    "num_random_init")

\* lines 104-105
DrawNumRandomInit ==
    /\ pc = "num_random_init"
    /\ IF RandintRaises(self.min_num_random_init, self.max_num_random_init + 1)
       THEN Raise("RuntimeError")
       ELSE \E raw \in Raw :
              Store(SetItem(attack_args, "num_random_init",
                            _randint(self.min_num_random_init,
                                     self.max_num_random_init, raw)),
                    "confidence")

\* lines 106-107
DrawConfidence ==
    /\ pc = "confidence"
    /\ \E raw \in Raw :
         Store(SetItem(attack_args, "confidence",
                       _uniform(self.min_confidence, self.max_confidence, raw)),
               "lr")

\* line 108
DrawLr ==
    /\ pc = "lr"
    /\ \E raw \in Raw :
         Store(SetItem(attack_args, "lr", _uniform(self.min_lr, self.max_lr, raw)),
               "binary_search_steps")

\* lines 109-110
DrawBinarySearchSteps ==
    /\ pc = "binary_search_steps"
    /\ IF RandintRaises(self.min_binary_search_steps,
                        self.max_binary_search_steps + 1)
       THEN Raise("RuntimeError")
       ELSE \E raw \in Raw :
              Store(SetItem(attack_args, "binary_search_steps",
                            _randint(self.min_binary_search_steps,
                                     self.max_binary_search_steps, raw)),
                    "max_iter")

\* lines 111-112
DrawMaxIter ==
    /\ pc = "max_iter"
    /\ IF RandintRaises(self.min_iter, self.max_iter + 1)
       THEN Raise("RuntimeError")
       ELSE \E raw \in Raw :
              Store(SetItem(SetItem(attack_args, "max_iter",
                                    _randint(self.min_iter, self.max_iter, raw)),
                            "abort_early", self.abort_early),
                    "c")

\* the copies taken from the constructor's defaults instead of self
Copied_defaults(s) ==
    [reduce_c |-> Pinned.reduce_c,
     c_incr_factor |-> Pinned.c_incr_factor,
     tau_decr_factor |-> Pinned.tau_decr_factor,
     indep_channels |-> Pinned.indep_channels,
     norm_time |-> Pinned.norm_time,
     time_dim |-> Pinned.time_dim,
     use_snr |-> Pinned.use_snr,
     targeted |-> Pinned.targeted,
     range_min |-> Pinned.range_min,
     range_max |-> Pinned.range_max,
     eps_scale |-> Pinned.eps_scale]

\* the copies, with the sampler's snr range and loss among them
Copied_with_snr(s) ==
    [reduce_c |-> s.reduce_c,
     c_incr_factor |-> s.c_incr_factor,
     tau_decr_factor |-> s.tau_decr_factor,
     indep_channels |-> s.indep_channels,
     norm_time |-> s.norm_time,
     time_dim |-> s.time_dim,
     use_snr |-> s.use_snr,
     targeted |-> s.targeted,
     range_min |-> s.range_min,
     range_max |-> s.range_max,
     eps_scale |-> s.eps_scale,
     snr |-> s.min_snr,
     loss |-> s.loss]

\* lines 114-124: the arguments copied from the sampler
Copied(s) ==
    [reduce_c |-> s.reduce_c,
     c_incr_factor |-> s.c_incr_factor,
     tau_decr_factor |-> s.tau_decr_factor,
     indep_channels |-> s.indep_channels,
     norm_time |-> s.norm_time,
     time_dim |-> s.time_dim,
     use_snr |-> s.use_snr,
     targeted |-> s.targeted,
     range_min |-> s.range_min,
     range_max |-> s.range_max,
     eps_scale |-> s.eps_scale]

\* lines 113-126: the last draw, the copies, and the return
DrawC ==
    /\ pc = "c"
    /\ \E raw \in Raw :
         /\ heap' = [heap EXCEPT ![args_ref] =
                       Copied(self)
                       @@ SetItem(attack_args, "c",
                                  _uniform(self.min_c, self.max_c, raw))]
         /\ rngDraws' = rngDraws + 1
    /\ ret_ref' = args_ref
    /\ pc' = IF entry = "sample_attack" THEN "model" ELSE "idle"
    /\ UNCHANGED <<sampler, calls, entry, model, args_ref, af_kwargs,
                   raised>>
    /\ UNCHANGED <<cliVars, loadVars>>

----------------------------------------------------------------------------
(* sample_attack, lines 131-132 *)

\* line 131
SetModel ==
    /\ pc = "model"
    /\ heap' = [heap EXCEPT ![args_ref] = SetItem(attack_args, "model", model)]
    /\ pc' = "create"
    /\ UNCHANGED <<sampler, rngDraws, calls, entry, model, args_ref,
                   ret_ref, af_kwargs, raised>>
    /\ UNCHANGED <<cliVars, loadVars>>

\* line 132: AF.create(**attack_args) receives its own copy of the entries
Create ==
    /\ pc = "create"
    /\ af_kwargs' = attack_args
    /\ pc' = "idle"
    /\ UNCHANGED <<sampler, rngDraws, calls, entry, model, heap,
                   args_ref, ret_ref, raised>>
    /\ UNCHANGED <<cliVars, loadVars>>

----------------------------------------------------------------------------

Next ==
    \/ Construct
    \/ CallSampleAttackArgs
    \/ CallSampleAttack
    \/ DrawAttackType
    \/ DrawEps
    \/ DrawAlpha
    \/ DrawNorm
    \/ DrawNumRandomInit
    \/ DrawConfidence
    \/ DrawLr
    \/ DrawBinarySearchSteps
    \/ DrawMaxIter
    \/ DrawC
    \/ SetModel
    \/ Create

Spec == Init /\ [][Next]_vars

----------------------------------------------------------------------------
(* Reading the state *)

\* A call of _sample_attack_args has returned; config is what it returned.
Sampled == ret_ref # 0

config == heap[ret_ref]

Max(a, b) == IF a >= b THEN a ELSE b

Elements(list) == {list[i] : i \in 1 .. Len(list)}

EpsOrdered(s) == Zero < s.min_eps /\ s.min_eps <= s.max_eps

AlphaOrdered(s) == Zero < s.min_alpha /\ s.min_alpha <= s.max_alpha

\* Some numeric range of the sampler has min > max.
HasBadRange(s) ==
    \/ s.min_eps > s.max_eps
    \/ s.min_alpha > s.max_alpha
    \/ s.min_confidence > s.max_confidence
    \/ s.min_lr > s.max_lr
    \/ s.min_c > s.max_c
    \/ s.min_num_random_init > s.max_num_random_init
    \/ s.min_binary_search_steps > s.max_binary_search_steps
    \/ s.min_iter > s.max_iter

----------------------------------------------------------------------------
(* Claims *)

\* C1: in every configuration _sample_attack_args returns, for positive
\* min_eps <= max_eps and positive min_alpha <= max_alpha, alpha <= eps.
\* Fails: alpha is recomputed as exp(log(eps)) when its bounds collapse.
C1_AlphaAtMostEps ==
    (Sampled /\ EpsOrdered(self) /\ AlphaOrdered(self))
        => config["alpha"] <= config["eps"]

\* C2: for integer bounds min <= max, num_random_init, binary_search_steps
\* and max_iter each lie in [min, max] of their own pair, and every value of
\* the pair's range, both ends included, is one the sampler can return.
IntRangeInclusive(lo, hi) ==
    lo <= hi =>
        /\ \A raw \in Raw : _randint(lo, hi, raw) \in lo .. hi
        /\ (hi - lo < RawRes) =>
             \A v \in lo .. hi : \E raw \in Raw : _randint(lo, hi, raw) = v

C2_IntRangesInclusive ==
    /\ Sampled =>
         /\ config["num_random_init"] \in
              self.min_num_random_init .. self.max_num_random_init
         /\ config["binary_search_steps"] \in
              self.min_binary_search_steps .. self.max_binary_search_steps
         /\ config["max_iter"] \in self.min_iter .. self.max_iter
    /\ sampler # <<>> =>
         /\ IntRangeInclusive(self.min_num_random_init, self.max_num_random_init)
         /\ IntRangeInclusive(self.min_binary_search_steps,
                              self.max_binary_search_steps)
         /\ IntRangeInclusive(self.min_iter, self.max_iter)

\* C2 witness: a configuration whose three integers all sit at the upper
\* end of ranges wider than one value.
C2_Witness ==
    /\ Sampled
    /\ self.min_num_random_init < self.max_num_random_init
    /\ self.min_binary_search_steps < self.max_binary_search_steps
    /\ self.min_iter < self.max_iter
    /\ config["num_random_init"] = self.max_num_random_init
    /\ config["binary_search_steps"] = self.max_binary_search_steps
    /\ config["max_iter"] = self.max_iter

\* C3: constructing the sampler with a range whose min exceeds its max fails,
\* so no sampler object with such a range exists and no later sampling call
\* is the first to raise.  Fails: __init__ stores whatever it is given.
C3_BadRangeRejected ==
    /\ sampler # <<>> => ~HasBadRange(self)
    /\ raised # "none" => ~HasBadRange(self)

\* C5: for 0 < min_eps <= max_eps the sampled eps lies in [min_eps, max_eps]
\* and eps_scale is carried unchanged beside it.
\* Fails: exp(log(min_eps)) need not be min_eps.
C5_EpsInRange ==
    (Sampled /\ EpsOrdered(self)) =>
        /\ self.min_eps <= config["eps"]
        /\ config["eps"] <= self.max_eps
        /\ config["eps_scale"] = self.eps_scale

\* C6: the sampled attack_type and norm are elements of the configured lists,
\* and every element of each list can be the one drawn.
EveryItemDrawn(list) ==
    (Len(list) <= RawRes) =>
        \A i \in 1 .. Len(list) :
            \E raw \in Raw : Item(list, _choice(Len(list), raw)) = list[i]

C6_ChoiceFromList ==
    /\ Sampled =>
         /\ config["attack_type"] \in Elements(self.attack_types)
         /\ config["norm"] \in Elements(self.norms)
    /\ sampler # <<>> =>
         /\ EveryItemDrawn(self.attack_types)
         /\ EveryItemDrawn(self.norms)

\* C6 witness: the last element of a three-element list is the one drawn.
C6_Witness ==
    /\ Sampled
    /\ Len(self.norms) = 3
    /\ Len(self.attack_types) = 2
    /\ config["norm"] = self.norms[3]
    /\ config["attack_type"] = self.attack_types[2]

\* C7 as stated: every sampled configuration has 0 <= confidence <= 1,
\* binary_search_steps >= 1 and max_iter >= 1 whatever bounds the
\* constructor accepted.
C7_DataModelInvariants ==
    Sampled =>
        /\ Zero <= config["confidence"]
        /\ config["confidence"] <= One
        /\ config["binary_search_steps"] >= 1
        /\ config["max_iter"] >= 1

\* C7 amended: confidence lies between the two configured confidence bounds,
\* binary_search_steps and max_iter within their configured ranges; so the
\* data-model limits hold for the samplers whose bounds lie inside them.
C7_WithinConfiguredBounds ==
    Sampled =>
        /\ Min(self.min_confidence, self.max_confidence) <= config["confidence"]
        /\ config["confidence"] <= Max(self.min_confidence, self.max_confidence)
        /\ self.min_binary_search_steps <= config["binary_search_steps"]
        /\ config["binary_search_steps"] <= self.max_binary_search_steps
        /\ self.min_iter <= config["max_iter"]
        /\ config["max_iter"] <= self.max_iter
        /\ (Zero <= self.min_confidence /\ self.min_confidence <= One
            /\ Zero <= self.max_confidence /\ self.max_confidence <= One)
             => (Zero <= config["confidence"] /\ config["confidence"] <= One)
        /\ self.min_binary_search_steps >= 1 => config["binary_search_steps"] >= 1
        /\ self.min_iter >= 1 => config["max_iter"] >= 1

\* C7 witness: confidence drawn strictly inside (0, 1) from the range [0, 1].
C7_Witness ==
    /\ Sampled
    /\ self.min_confidence = Zero
    /\ self.max_confidence = One
    /\ Zero < config["confidence"]
    /\ config["confidence"] < One

\* C8: the fields that are not drawn equal the constructor's values.
CopiedKeys ==
    {"random_eps", "abort_early", "reduce_c", "c_incr_factor",
     "tau_decr_factor", "indep_channels", "norm_time", "use_snr", "targeted",
     "range_min", "range_max", "eps_scale"}

C8_PassThrough ==
    Sampled => \A k \in CopiedKeys : config[k] = self[k]

\* C8 witness: a configuration sampled from a sampler whose copied
\* arguments all differ from the defaults.
C8_Witness ==
    /\ Sampled
    /\ self.random_eps /\ ~self.abort_early /\ self.reduce_c
    /\ self.eps_scale = 2 /\ self.range_min = "-1.0"
    /\ config["eps_scale"] = 2

\* C9: sampling leaves the sampler's parameters as constructed; each call
\* fills a dict object other than the one returned before; and a returned
\* configuration changes only by sample_attack setting its model entry
\* before AF.create receives it.
C9_Frame ==
    [][/\ sampler # <<>> => sampler' = sampler
       /\ ret_ref' # ret_ref => (ret_ref' = args_ref /\ args_ref # ret_ref)
       /\ ret_ref # 0 =>
            \/ heap'[ret_ref] = heap[ret_ref]
            \/ /\ pc = "model"
               /\ ret_ref = args_ref
               /\ heap'[ret_ref] = SetItem(heap[ret_ref], "model", model)
       /\ af_kwargs' # af_kwargs =>
            \/ pc = "idle" /\ af_kwargs' = EmptyDict
            \/ af_kwargs' = heap[ret_ref] /\ "model" \in DOMAIN heap[ret_ref]
      ]_vars

\* C9 witness: a second call, through sample_attack, has handed its
\* configuration to the factory while the first call's is still held.
C9_Witness ==
    /\ calls = 2
    /\ pc = "idle"
    /\ entry = "sample_attack"
    /\ raised = "none"
    /\ af_kwargs = config
    /\ \E i \in DictIds : i # ret_ref /\ "eps" \in DOMAIN heap[i]

\* C10: alpha lies in [min(eps, min_alpha), min(eps, max_alpha)] for the eps
\* of the same call, and equals eps when eps <= min_alpha.
\* Fails: exp(log(x)) need not be x.
C10_AlphaInterval ==
    (Sampled /\ EpsOrdered(self) /\ AlphaOrdered(self)) =>
        /\ Min(config["eps"], self.min_alpha) <= config["alpha"]
        /\ config["alpha"] <= Min(config["eps"], self.max_alpha)
        /\ config["eps"] <= self.min_alpha => config["alpha"] = config["eps"]

----------------------------------------------------------------------------
(* The random source *)

\* lines 95-113: the draws of one call, in the order the statements run
DrawOrder ==
    <<"attack_type", "eps", "alpha", "norm", "num_random_init", "confidence",
      "lr", "binary_search_steps", "max_iter", "c">>

\* C12: every call of _sample_attack_args takes 10 draws in the order
\* attack_type, eps, alpha, norm, num_random_init, confidence, lr,
\* binary_search_steps, max_iter, c, so that the random source has advanced
\* by 10 * k after k calls and by 10 * (k - 1) + (i - 1) when the k-th call
\* is at its i-th draw.
\* Fails: a call that raises leaves after fewer than 10 draws.
C12_TenDrawsPerCall ==
    /\ pc \in {"idle", "model", "create"} => rngDraws = 10 * calls
    /\ \A i \in 1 .. Len(DrawOrder) :
         pc = DrawOrder[i] => rngDraws = 10 * (calls - 1) + (i - 1)

----------------------------------------------------------------------------
(* RandomAttackFactory.filter_args, lines 135-166 *)

\* A Python value that may stand in a norms list: its type and its repr, a
\* str standing for itself.  The repr and the str are sequences of code
\* points: "inf" is <<105, 110, 102>>.
PyValue(type, repr) == [type |-> type, repr |-> repr]

\* the text from its i-th character on
From(s, i) == SubSeq(s, i, Len(s))

\* the place of the first character of s that is in cs, or 0
IndexOf(s, cs) ==
    IF \A i \in 1 .. Len(s) : s[i] \notin cs THEN 0
    ELSE CHOOSE i \in 1 .. Len(s) :
            s[i] \in cs /\ \A j \in 1 .. (i - 1) : s[j] \notin cs

\* the place of the first, and of the last, character of s that is not in
\* cs, or 0
IndexNotIn(s, cs) ==
    IF \A i \in 1 .. Len(s) : s[i] \in cs THEN 0
    ELSE CHOOSE i \in 1 .. Len(s) :
            s[i] \notin cs /\ \A j \in 1 .. (i - 1) : s[j] \in cs

LastIndexNotIn(s, cs) ==
    IF \A i \in 1 .. Len(s) : s[i] \in cs THEN 0
    ELSE CHOOSE i \in 1 .. Len(s) :
            s[i] \notin cs /\ \A j \in (i + 1) .. Len(s) : s[j] \in cs

IsDigit(c) == c \in 48 .. 57

\* the code points float() strips from both ends: \t \n \v \f \r and space
Whitespace == {9, 10, 11, 12, 13, 32}

\* the code points past ASCII that are spaces (Unicode 14.0)
UnicodeSpaces ==
    {133, 160, 5760, 8232, 8233, 8239, 8287, 12288} \cup (8192 .. 8202)

\* the code points past ASCII of the digit zero of each script; its other
\* nine digits follow it (Unicode 14.0)
UnicodeZeros ==
    {1632, 1776, 1984, 2406, 2534, 2662, 2790, 2918, 3046, 3174, 3302, 3430,
     3558, 3664, 3792, 3872, 4160, 4240, 6112, 6160, 6470, 6608, 6784, 6800,
     6992, 7088, 7232, 7248, 42528, 43216, 43264, 43472, 43504, 43600, 44016,
     65296, 66720, 68912, 69734, 69872, 69942, 70096, 70384, 70736, 70864,
     71248, 71360, 71472, 71904, 72016, 72784, 73040, 73120, 92768, 92864,
     93008, 120782, 120792, 120802, 120812, 120822, 123200, 123632, 125264,
     130032}

\* float() reads a str that is not all ASCII through its ASCII form: a
\* space past ASCII becomes a space and a digit its ASCII digit; the form
\* ends in "?" at the first other character past ASCII.
ToASCII(c) ==
    IF c <= 127 THEN c
    ELSE IF c \in UnicodeSpaces THEN 32
    ELSE IF \E z \in UnicodeZeros : c \in z .. (z + 9)
    THEN 48 + c - (CHOOSE z \in UnicodeZeros : c \in z .. (z + 9))
    ELSE 63

TransformDecimalAndSpaceToASCII(s) ==
    LET bad == IndexOf([i \in 1 .. Len(s) |-> s[i] > 127 /\ ToASCII(s[i]) = 63],
                       {TRUE})
        n == IF bad = 0 THEN Len(s) ELSE bad
    IN  [i \in 1 .. n |-> ToASCII(s[i])]

LStrip(s) ==
    LET first == IndexNotIn(s, Whitespace)
    IN  IF first = 0 THEN <<>> ELSE From(s, first)

RStrip(s) ==
    LET last == LastIndexNotIn(s, Whitespace)
    IN  SubSeq(s, 1, last)

\* inf, infinity and nan are read in either case
Lower(s) == [i \in 1 .. Len(s) |-> IF s[i] \in 65 .. 90 THEN s[i] + 32 ELSE s[i]]

\* digitpart: digits, with single underscores between them
IsDigitPart(s) ==
    /\ s # <<>>
    /\ IsDigit(s[1])
    /\ IsDigit(s[Len(s)])
    /\ \A i \in 1 .. Len(s) :
         \/ IsDigit(s[i])
         \/ s[i] = 95 /\ s[i + 1] # 95

\* the characters of s that are not in cs, in their order
RECURSIVE Without(_, _)
Without(s, cs) ==
    IF Len(s) > 1
    THEN Without(SubSeq(s, 1, Len(s) \div 2), cs)
            \o Without(From(s, Len(s) \div 2 + 1), cs)
    ELSE IF s # <<>> /\ s[1] \in cs THEN <<>> ELSE s

NoUnderscores(s) ==
    IF \A i \in 1 .. Len(s) : s[i] # 95 THEN s ELSE Without(s, {95})

NoLeadingZeros(s) ==
    LET first == IndexNotIn(s, {48})
    IN  IF first = 0 THEN <<>> ELSE From(s, first)

NoTrailingZeros(s) ==
    LET last == LastIndexNotIn(s, {48})
    IN  SubSeq(s, 1, last)

Zeros(n) == [i \in 1 .. n |-> 48]

\* a row of digits as a number
RECURSIVE IntOfDigits(_)
IntOfDigits(s) ==
    IF s = <<>> THEN 0
    ELSE 10 * IntOfDigits(SubSeq(s, 1, Len(s) - 1)) + (s[Len(s)] - 48)

\* a number as its row of digits
RECURSIVE DigitsOfInt(_)
DigitsOfInt(n) ==
    IF n < 10 THEN <<48 + n>>
    ELSE Append(DigitsOfInt(n \div 10), 48 + (n % 10))

\* the largest exponent float() tells apart: a larger one counts as this
MAX_ABS_EXP == 1100000000

ExpOfDigits(s) ==
    LET d == NoLeadingZeros(NoUnderscores(s))
    IN  IF Len(d) > 9 THEN MAX_ABS_EXP ELSE IntOfDigits(d)

\* 0.a <= 0.b for two rows of digits without trailing zeros
FracLeq(a, b) ==
    LET m == IF Len(a) <= Len(b) THEN Len(a) ELSE Len(b)
        at == {i \in 1 .. m : a[i] # b[i]}
        first == CHOOSE i \in at : \A j \in at : i <= j
    IN  IF at = {} THEN Len(a) <= Len(b) ELSE a[first] < b[first]

\* The parts of a number, its sign and exponent mark found: the number is
\* digitpart ["."] | [digitpart] "." digitpart, split at dot, the place of
\* its point or 0; the exponent is what follows the mark, sign first.
FloatParts(negative, name, number, dot, exp_given, exponent) ==
    [negative |-> negative,
     name |-> name,
     int |-> IF dot = 0 THEN number ELSE SubSeq(number, 1, dot - 1),
     frac |-> IF dot = 0 THEN <<>> ELSE From(number, dot + 1),
     exp_given |-> exp_given,
     exp_negative |-> exponent # <<>> /\ exponent[1] = 45,
     exp_digits |-> IF exponent # <<>> /\ exponent[1] \in {43, 45}
                    THEN From(exponent, 2) ELSE exponent,
     dotted |-> dot # 0]

\* The text after the sign, split at e, the place of its first "e" or "E",
\* or 0
FloatBody(negative, body, e) ==
    IF e = 0
    THEN FloatParts(negative, Lower(body), body, IndexOf(body, {46}),
                    FALSE, <<>>)
    ELSE FloatParts(negative, Lower(body), SubSeq(body, 1, e - 1),
                    IndexOf(SubSeq(body, 1, e - 1), {46}),
                    TRUE, From(body, e + 1))

\* A text without whitespace around it, split at its sign
FloatStripped(s) ==
    IF s # <<>> /\ s[1] \in {43, 45}
    THEN FloatBody(s[1] = 45, From(s, 2), IndexOf(From(s, 2), {69, 101}))
    ELSE FloatBody(FALSE, s, IndexOf(s, {69, 101}))

\* The text of a number split as the grammar of float() has it:
\* [sign] (inf | infinity | nan | number [exponent])
FloatSyntax(str) ==
    FloatStripped(RStrip(LStrip(TransformDecimalAndSpaceToASCII(str))))

Inf == <<105, 110, 102>>   \* "inf"

NaN == <<110, 97, 110>>   \* "nan"

FloatNames == {Inf, <<105, 110, 102, 105, 110, 105, 116, 121>>, NaN}   \* "inf", "infinity", "nan"

FloatZero == <<48, 46, 48>>   \* "0.0"

IsFloatName(f) == f.name \in FloatNames

\* float() reads no number of more digits than this
MAX_DIGITS == 1000000000

\* The digits counted are those from the first that is not zero on, and
\* those after the point, the zeros that lead them too.
TooManyDigits(f) ==
    LET int == NoLeadingZeros(NoUnderscores(f.int))
        frac == NoUnderscores(f.frac)
        ndigits == IF int = <<>> THEN Len(NoLeadingZeros(frac))
                   ELSE Len(int) + Len(frac)
    IN  ndigits > MAX_DIGITS \/ Len(frac) > MAX_DIGITS

IsFloatNumber(f) ==
    /\ IF f.dotted
       THEN /\ f.int = <<>> \/ IsDigitPart(f.int)
            /\ f.frac = <<>> \/ IsDigitPart(f.frac)
            /\ f.int # <<>> \/ f.frac # <<>>
       ELSE IsDigitPart(f.int)
    /\ f.exp_given => IsDigitPart(f.exp_digits)
    /\ ~TooManyDigits(f)

\* 15 decimal digits pick one double each, and that double prints them back
DBL_DIG == 15

\* the digits of half the smallest float (from below) and of the largest
\* float (from above, and the largest of DBL_DIG digits below it), and of
\* the smallest normal float of DBL_DIG digits
HalfSmallest == <<50, 52, 55, 48, 51, 50, 56, 50, 50, 57, 50, 48, 54, 50, 51, 50, 55>>   \* "24703282292062327"

PastLargest == <<49, 55, 57, 55, 54, 57, 51, 49, 51, 52, 56, 54, 50, 51, 49, 53, 57>>   \* "17976931348623159"

LargestShort == <<49, 55, 57, 55, 54, 57, 51, 49, 51, 52, 56, 54, 50, 51, 49>>   \* "179769313486231"

SmallestNormalShort == <<50, 50, 50, 53, 48, 55, 51, 56, 53, 56, 53, 48, 55, 50, 49>>   \* "222507385850721"

\* repr of the float nearest to (-1)^negative * 0.digits * 10^decpt, for
\* digits without leading or trailing zeros.  Past the largest float the
\* nearest is inf; at or below half the smallest it is zero.  Subnormal
\* numbers and rows of more than DBL_DIG digits have no case here.
FloatRepr(negative, digits, decpt) ==
    LET sign == IF negative THEN <<45>> ELSE <<>>
        n == Len(digits)
        e == decpt - 1
        ee == DigitsOfInt(IF e < 0 THEN -e ELSE e)
        TooSmall == FracLeq(digits, HalfSmallest)
        TooLarge == FracLeq(PastLargest, digits)
        Normal == /\ n \in 1 .. DBL_DIG
                  /\ decpt > -307
                       \/ (decpt = -307 /\ FracLeq(SmallestNormalShort, digits))
                  /\ decpt < 309
                       \/ (decpt = 309 /\ FracLeq(digits, LargestShort))
    IN  CASE digits = <<>> -> sign \o FloatZero
          [] digits # <<>> /\ (decpt < -323 \/ (decpt = -323 /\ TooSmall)) ->
               sign \o FloatZero
          [] digits # <<>> /\ (decpt > 309 \/ (decpt = 309 /\ TooLarge)) ->
               sign \o Inf
          [] Normal /\ (decpt <= -4 \/ decpt > 16) ->
               sign \o <<digits[1]>>
                    \o (IF n = 1 THEN <<>> ELSE <<46>> \o From(digits, 2))
                    \o <<101, IF e < 0 THEN 45 ELSE 43>>
                    \o (IF Len(ee) = 1 THEN <<48>> ELSE <<>>) \o ee
          [] Normal /\ decpt \in -3 .. 0 ->
               sign \o <<48, 46>> \o Zeros(-decpt) \o digits
          [] Normal /\ decpt \in 1 .. 16 /\ decpt >= n ->
               sign \o digits \o Zeros(decpt - n) \o <<46, 48>>
          [] Normal /\ decpt \in 1 .. 16 /\ decpt < n ->
               sign \o SubSeq(digits, 1, decpt) \o <<46>>
                    \o From(digits, decpt + 1)

\* repr of the float a parsed text stands for
FloatOfSyntax(f) ==
    IF f.name = NaN THEN NaN
    ELSE IF IsFloatName(f) THEN (IF f.negative THEN <<45>> \o Inf ELSE Inf)
    ELSE LET int == NoUnderscores(f.int)
             all == int \o NoUnderscores(f.frac)
             lead == NoLeadingZeros(all)
             exp == IF ~f.exp_given THEN 0
                    ELSE IF f.exp_negative THEN -ExpOfDigits(f.exp_digits)
                    ELSE ExpOfDigits(f.exp_digits)
         IN  FloatRepr(f.negative, NoTrailingZeros(lead),
                       Len(int) + exp - (Len(all) - Len(lead)))

\* line 146: float(a) raises ValueError on a string that is not a number
\* float() reads
FloatRaises(a) ==
    /\ a.type = "str"
    /\ ~IsFloatName(FloatSyntax(a.repr))
    /\ ~IsFloatNumber(FloatSyntax(a.repr))

\* line 146: float(a) raises OverflowError on an int past every float
FloatOverflows(a) ==
    /\ a.type = "int"
    /\ FloatOfSyntax(FloatSyntax(a.repr)) \in {Inf, <<45>> \o Inf}

\* line 146: float(a), where float() returns
PyFloat(a) ==
    CASE a.type = "float" -> a
      [] a.type = "str" /\ ~FloatRaises(a) ->
           PyValue("float", FloatOfSyntax(FloatSyntax(a.repr)))
      [] a.type = "int" /\ ~FloatOverflows(a) ->
           LET f == FloatSyntax(a.repr)
           IN  PyValue("float", FloatOfSyntax([f EXCEPT !.negative =
                                   f.negative /\ NoLeadingZeros(f.int) # <<>>]))

\* The comparison a list makes of its element with another list's: the
\* same object, or ==.  Numbers compare by value, a string equals only the
\* same string, and an int past every float equals only itself.
PyEq(a, b) ==
    LET Unsigned(r) == IF r = <<45>> \o FloatZero THEN FloatZero ELSE r
    IN  IF a.type = "str" \/ b.type = "str" \/ FloatOverflows(a)
                                           \/ FloatOverflows(b)
        THEN a = b
        ELSE Unsigned(PyFloat(a).repr) = Unsigned(PyFloat(b).repr)

\* Python's == on two lists
PyListEq(x, y) ==
    /\ Len(x) = Len(y)
    /\ \A i \in 1 .. Len(x) : PyEq(x[i], y[i])

\* lines 148-161
valid_args ==
    <<"attack_types", "min_eps", "max_eps", "min_snr", "max_snr", "norms",
      "random_eps", "min_num_random_init", "max_num_random_init",
      "min_alpha", "max_alpha", "min_confidence", "max_confidence",
      "min_lr", "max_lr", "min_binary_search_steps",
      "max_binary_search_steps", "min_iter", "max_iter", "abort_early",
      "min_c", "max_c", "reduce_c", "c_incr_factor", "tau_decr_factor",
      "indep_channels", "use_snr", "norm_time", "targeted">>

\* the prefix taken as empty whatever was given
PrefixOf_none(prefix) == ""

\* lines 137-140: p
PrefixOf(prefix) == IF prefix = <<>> THEN "" ELSE prefix[1] \o "_"

\* line 146: the exception of the first element float() does not take
NormsRaise(given) ==
    LET bad == {i \in 1 .. Len(given) :
                  FloatRaises(given[i]) \/ FloatOverflows(given[i])}
        first == CHOOSE i \in bad : \A j \in bad : i <= j
    IN  IF bad = {} THEN "none"
        ELSE IF FloatRaises(given[first]) THEN "ValueError"
        ELSE "OverflowError"

\* lines 142-166.  The result is the dict returned, or the exception.
filter_args(prefix, kwargs) ==
    LET p == PrefixOf(prefix)
        kwargs1 == IF (p \o "no_abort") \in DOMAIN kwargs
                   THEN SetItem(kwargs, p \o "abort_early",
                                ~kwargs[p \o "no_abort"])
                   ELSE kwargs
        hasNorms == (p \o "norms") \in DOMAIN kwargs1
        given == kwargs1[p \o "norms"]
        kwargs2 == IF hasNorms
                   THEN SetItem(kwargs1, p \o "norms",
                                [i \in 1 .. Len(given) |-> PyFloat(given[i])])
                   ELSE kwargs1
    IN  IF hasNorms /\ NormsRaise(given) # "none"
        THEN [raised |-> NormsRaise(given), args |-> EmptyDict]
        ELSE [raised |-> "none",
              args |-> [k \in {k \in Elements(valid_args) :
                                 (p \o k) \in DOMAIN kwargs2}
                        |-> kwargs2[p \o k]]]

\* The calls made of filter_args: the prefix, and keyword arguments put
\* together from one choice for each group of keys.
FaPrefixes == {<<>>, <<"attack">>}

NoAbortChoices ==
    {EmptyDict, "no_abort" :> TRUE, "no_abort" :> FALSE,
     "attack_no_abort" :> TRUE, "attack_no_abort" :> FALSE}

AbortEarlyChoices ==
    {EmptyDict, "abort_early" :> TRUE, "abort_early" :> FALSE,
     "attack_abort_early" :> TRUE, "attack_abort_early" :> FALSE}

\* a list given as norms, and what line 146 makes of it when the program
\* runs: the exception it raises, or the reprs of the floats of its list
NormsCase(given, raises, floats) ==
    [given |-> given, raises |-> raises, floats |-> floats]

NormsCases ==
    {NormsCase(<<PyValue("float", Inf), PyValue("float", <<49, 46, 48>>)>>,
               "none", <<Inf, <<49, 46, 48>>>>),          \* [inf, 1.0], as argparse gives
     NormsCase(<<PyValue("int", <<49>>), PyValue("int", <<50>>)>>,   \* [1, 2]
               "none", <<<<49, 46, 48>>, <<50, 46, 48>>>>),
     NormsCase(<<PyValue("str", Inf), PyValue("str", <<50>>)>>,      \* ["inf", "2"]
               "none", <<Inf, <<50, 46, 48>>>>),
     NormsCase(<<PyValue("str", <<51>>), PyValue("str", <<49, 101, 51>>),
                 PyValue("str", <<32, 50, 32>>)>>,                   \* ["3", "1e3", " 2 "]
               "none", <<<<51, 46, 48>>, <<49, 48, 48, 48, 46, 48>>,
                         <<50, 46, 48>>>>),                          \* [3.0, 1000.0, 2.0]
     NormsCase(<<PyValue("str", <<73, 110, 102, 105, 110, 105, 116, 121>>),  \* "Infinity"
                 PyValue("str", NaN),                                \* "nan"
                 PyValue("str", <<50, 46, 53, 48>>),                    \* "2.50"
                 PyValue("str", <<45, 49, 95, 48, 46, 53, 69, 45, 55>>)>>,  \* "-1_0.5E-7"
               "none", <<Inf, NaN, <<50, 46, 53>>,
                         <<45, 49, 46, 48, 53, 101, 45, 48, 54>>>>),   \* 2.5, -1.05e-06
     NormsCase(<<PyValue("str", <<11, 50>>),          \* "2" after a vertical tab
                 PyValue("str", <<160, 1633, 46, 65301, 8195>>)>>,
                                   \* Arabic-Indic 1, fullwidth 5, between spaces
               "none", <<<<50, 46, 48>>, <<49, 46, 53>>>>),          \* [2.0, 1.5]
     NormsCase(<<PyValue("float", <<50, 46, 48>>), PyValue("str", <<108, 50>>)>>,
               "ValueError", <<>>),                                  \* [2.0, "l2"]
     NormsCase(<<PyValue("str", <<50>>), PyValue("str", <<28, 50>>)>>,
               "ValueError", <<>>),                   \* "2" after a file separator
     NormsCase(<<PyValue("int", <<55>>), PyValue("int", <<49>> \o Zeros(309)),
                 PyValue("str", <<49, 101>>)>>,
               "OverflowError", <<>>)}                       \* [7, 10**309, "1e"]

NormsGiven == {c.given : c \in NormsCases}

NormsChoices ==
    {EmptyDict} \cup {"norms" :> n : n \in NormsGiven}
                \cup {"attack_norms" :> n : n \in NormsGiven}

RangeChoices ==
    {EmptyDict,
     ("min_eps" :> 8) @@ ("max_eps" :> 32),
     ("attack_min_eps" :> 16) @@ ("attack_max_iter" :> 5),
     ("min_eps" :> 8) @@ ("attack_min_eps" :> 16)}

\* keys filter_args does not list, and a list it does
OtherChoices ==
    {EmptyDict,
     ("time_dim" :> "-1") @@ ("eps_scale" :> 2) @@ ("loss" :> "None"),
     ("attack_time_dim" :> "-1") @@ ("attack_attack_types" :> <<"fgsm", "pgd">>),
     ("attack_types" :> <<"pgd">>) @@ ("attack" :> "x") @@ ("_min_eps" :> 8)}

FaKwargs ==
    {a @@ b @@ c @@ d @@ e :
        a \in NoAbortChoices, b \in AbortEarlyChoices, c \in NormsChoices,
        d \in RangeChoices, e \in OtherChoices}

FilterInit ==
    /\ SamplerInit
    /\ NoLoadCall
    /\ fa_prefix \in FaPrefixes
    /\ fa_kwargs \in FaKwargs
    /\ fa_out = <<>>

\* args = RandomAttackFactory.filter_args(prefix, **kwargs)
CallFilterArgs ==
    /\ fa_out = <<>>
    /\ fa_out' = <<filter_args(fa_prefix, fa_kwargs)>>
    /\ UNCHANGED <<fa_prefix, fa_kwargs, samplerVars, loadVars>>

FilterNext == CallFilterArgs

FilterSpec == FilterInit /\ [][FilterNext]_vars

FaReturned == fa_out # <<>> /\ fa_out[1].raised = "none"

FaP == IF fa_prefix = <<>> THEN "" ELSE fa_prefix[1] \o "_"

FaHasNoAbort == (FaP \o "no_abort") \in DOMAIN fa_kwargs

\* the listed names whose prefixed key is given, and abort_early when the
\* prefixed no_abort is
FaKeys ==
    {k \in Elements(valid_args) :
        \/ (FaP \o k) \in DOMAIN fa_kwargs
        \/ k = "abort_early" /\ FaHasNoAbort}

\* the places of the given norms that float() does not take
FaBadNorms ==
    IF (FaP \o "norms") \in DOMAIN fa_kwargs
    THEN LET given == fa_kwargs[FaP \o "norms"]
         IN  {i \in 1 .. Len(given) :
                FloatRaises(given[i]) \/ FloatOverflows(given[i])}
    ELSE {}

\* C11 as stated: the call returns a mapping with exactly the listed names
\* whose prefixed key is given, each with the value of its prefixed key, and
\* abort_early = not no_abort when the prefixed no_abort is given.
\* Fails: norms is returned as the list of float(a) of the given one, and
\* the call raises when float() does not take an element.
C11_FilterArgsAsGiven ==
    fa_out # <<>> =>
        /\ fa_out[1].raised = "none"
        /\ DOMAIN fa_out[1].args = FaKeys
        /\ \A k \in FaKeys :
             CASE k = "abort_early" /\ FaHasNoAbort ->
                    fa_out[1].args[k] = ~fa_kwargs[FaP \o "no_abort"]
               [] k = "norms" ->
                    PyListEq(fa_out[1].args[k], fa_kwargs[FaP \o k])
               [] OTHER -> fa_out[1].args[k] = fa_kwargs[FaP \o k]

\* the case of the norms the call was given
FaNormsCase ==
    CHOOSE c \in NormsCases : c.given = fa_kwargs[FaP \o "norms"]

\* C11, amended: the same, but norms maps to the floats of the given
\* elements, and the call raises instead of returning exactly when float()
\* raises on one of them: the exception is that of the first such element,
\* ValueError for a string float() does not read as a number and
\* OverflowError for an int past the largest float.  The exception and the
\* floats are those the program gives for the norms of the call.
C11_FilterArgs ==
    fa_out # <<>> =>
        /\ (FaP \o "norms") \in DOMAIN fa_kwargs =>
              /\ fa_out[1].raised = FaNormsCase.raises
              /\ FaReturned =>
                    LET got == fa_out[1].args["norms"]
                    IN  /\ \A i \in 1 .. Len(got) : got[i].type = "float"
                        /\ [i \in 1 .. Len(got) |-> got[i].repr]
                               = FaNormsCase.floats
        /\ (fa_out[1].raised = "none") = (FaBadNorms = {})
        /\ FaBadNorms # {} =>
              LET given == fa_kwargs[FaP \o "norms"]
                  first == CHOOSE i \in FaBadNorms :
                              \A j \in FaBadNorms : i <= j
              IN  fa_out[1].raised = IF given[first].type = "str"
                                     THEN "ValueError"
                                     ELSE "OverflowError"
        /\ FaReturned =>
             /\ DOMAIN fa_out[1].args = FaKeys
             /\ \A k \in FaKeys :
                  CASE k = "abort_early" /\ FaHasNoAbort ->
                         fa_out[1].args[k] = ~fa_kwargs[FaP \o "no_abort"]
                    [] k = "norms" ->
                         LET given == fa_kwargs[FaP \o k]
                             got == fa_out[1].args[k]
                         IN  /\ Len(got) = Len(given)
                             /\ \A i \in 1 .. Len(got) :
                                  got[i] = PyFloat(given[i])
                    [] OTHER -> fa_out[1].args[k] = fa_kwargs[FaP \o k]

\* C11 witness: a prefixed call whose no_abort overrides a given
\* abort_early, with norms given as strings and unlisted keys dropped.
C11_Witness ==
    /\ FaReturned
    /\ fa_prefix = <<"attack">>
    /\ "attack_no_abort" \in DOMAIN fa_kwargs
    /\ "attack_abort_early" \in DOMAIN fa_kwargs
    /\ fa_kwargs["attack_abort_early"] = fa_kwargs["attack_no_abort"]
    /\ fa_out[1].args["abort_early"] = ~fa_kwargs["attack_no_abort"]
    /\ "attack_norms" \in DOMAIN fa_kwargs
    /\ fa_kwargs["attack_norms"][1].type = "str"
    /\ "attack_time_dim" \in DOMAIN fa_kwargs
    /\ "min_eps" \in DOMAIN fa_kwargs
    /\ DOMAIN fa_out[1].args = {"abort_early", "norms", "attack_types"}

----------------------------------------------------------------------------
(* Two samplers drawing from the same state of the random source *)

\* what one statement of _sample_attack_args comes to
Stored(d) == [raised |-> "none", d |-> d]

Raising(exc) == [raised |-> exc, d |-> EmptyDict]

\* lines 95-125: the statement of sampler s that makes the draw named
\* step, on its attack_args d, when the draw gives raw
SampleStep(step, s, d, raw) ==
    CASE step = "attack_type" ->
           IF RandintRaises(0, Len(s.attack_types))
           THEN Raising("RuntimeError")
           ELSE Stored(SetItem(d, "attack_type",
                               Item(s.attack_types,
                                    _choice(Len(s.attack_types), raw))))
      [] step = "eps" ->
           IF LogRaises(s.min_eps, s.max_eps)
           THEN Raising("ValueError")
           ELSE Stored(SetItem(d, "eps",
                               _log_uniform(s.min_eps, s.max_eps, raw)))
      [] step = "alpha" ->
           LET lo == Min(d["eps"], s.min_alpha)
               hi == Min(d["eps"], s.max_alpha)
           IN  IF LogRaises(lo, hi)
               THEN Raising("ValueError")
               ELSE Stored(SetItem(d, "alpha", _log_uniform(lo, hi, raw)))
      [] step = "norm" ->
           IF RandintRaises(0, Len(s.norms))
           THEN Raising("RuntimeError")
           ELSE Stored(SetItem(SetItem(d, "norm",
                                       Item(s.norms, _choice(Len(s.norms), raw))),
                               "random_eps", s.random_eps))
      [] step = "num_random_init" ->
           IF RandintRaises(s.min_num_random_init, s.max_num_random_init + 1)
           THEN Raising("RuntimeError")
           ELSE Stored(SetItem(d, "num_random_init",
                               _randint(s.min_num_random_init,
                                        s.max_num_random_init, raw)))
      [] step = "confidence" ->
           Stored(SetItem(d, "confidence",
                          _uniform(s.min_confidence, s.max_confidence, raw)))
      [] step = "lr" ->
           Stored(SetItem(d, "lr", _uniform(s.min_lr, s.max_lr, raw)))
      [] step = "binary_search_steps" ->
           IF RandintRaises(s.min_binary_search_steps,
                            s.max_binary_search_steps + 1)
           THEN Raising("RuntimeError")
           ELSE Stored(SetItem(d, "binary_search_steps",
                               _randint(s.min_binary_search_steps,
                                        s.max_binary_search_steps, raw)))
      [] step = "max_iter" ->
           IF RandintRaises(s.min_iter, s.max_iter + 1)
           THEN Raising("RuntimeError")
           ELSE Stored(SetItem(SetItem(d, "max_iter",
                                       _randint(s.min_iter, s.max_iter, raw)),
                               "abort_early", s.abort_early))
      [] OTHER ->
           Stored(Copied(s) @@ SetItem(d, "c", _uniform(s.min_c, s.max_c, raw)))

\* <<min_snr, max_snr, loss>> given to the second sampler
SnrLoss ==
    {<<"0", "10", "None">>, <<"30", "60", "nll">>, <<"60", "30", "ce">>}

\* two samplers constructed from the same arguments but for min_snr,
\* max_snr and loss
ConstructTwins ==
    /\ sampler = <<>>
    /\ \E a \in CtorArgs, v \in SnrLoss :
         sampler' = <<a, [a EXCEPT !.min_snr = v[1], !.max_snr = v[2],
                                   !.loss = v[3]]>>
    /\ UNCHANGED <<rngDraws, calls, pc, entry, model, heap, args_ref,
                   ret_ref, af_kwargs, raised>>
    /\ UNCHANGED <<cliVars, loadVars>>

\* both are called with the random source in the same state; heap[i] is
\* the attack_args of sampler[i]
TwinEnter ==
    /\ pc = "idle"
    /\ sampler # <<>>
    /\ calls < MaxCalls
    /\ calls' = calls + 1
    /\ entry' = "_sample_attack_args"
    /\ heap' = [i \in DictIds |-> EmptyDict]
    /\ raised' = "none"
    /\ pc' = DrawOrder[1]
    /\ UNCHANGED <<sampler, rngDraws, model, args_ref, ret_ref,
                   af_kwargs>>
    /\ UNCHANGED <<cliVars, loadVars>>

NextDraw(step) ==
    IF step = DrawOrder[Len(DrawOrder)] THEN "idle"
    ELSE DrawOrder[1 + CHOOSE i \in 1 .. Len(DrawOrder) : DrawOrder[i] = step]

\* each makes its next draw, and the source gives both the same value
TwinDraw ==
    /\ pc \in Elements(DrawOrder)
    /\ \E raw \in Raw :
         LET out == [i \in DictIds |->
                       SampleStep(pc, sampler[i], heap[i], raw)]
             excs == {out[i].raised : i \in DictIds} \ {"none"}
         IN  /\ heap' = [i \in DictIds |-> out[i].d]
             /\ raised' = IF excs = {} THEN "none" ELSE CHOOSE e \in excs : TRUE
             /\ pc' = IF excs = {} THEN NextDraw(pc) ELSE "idle"
             /\ rngDraws' = IF excs = {} THEN rngDraws + 1 ELSE rngDraws
    /\ UNCHANGED <<sampler, calls, entry, model, args_ref, ret_ref,
                   af_kwargs>>
    /\ UNCHANGED <<cliVars, loadVars>>

TwinNext == ConstructTwins \/ TwinEnter \/ TwinDraw

TwinSpec == Init /\ [][TwinNext]_vars

TwinsSampled ==
    /\ Len(sampler) = 2
    /\ calls > 0
    /\ pc = "idle"
    /\ raised = "none"

\* C13: min_snr, max_snr and loss do not influence sampling: samplers that
\* differ only in them and draw from the same state of the random source
\* build the same configuration statement by statement (and fail at the
\* same statement if they fail), and no configuration has an snr or a loss
\* field.
C13_SnrLossUnused ==
    Len(sampler) = 2 =>
        /\ heap[1] = heap[2]
        /\ \A i \in DictIds :
             DOMAIN heap[i] \cap {"snr", "min_snr", "max_snr", "loss"} = {}

\* C13 witness: two samplers with different snr ranges and losses have
\* both returned an snr-fgsm configuration.
C13_Witness ==
    /\ TwinsSampled
    /\ sampler[1].min_snr # sampler[2].min_snr
    /\ sampler[1].max_snr # sampler[2].max_snr
    /\ sampler[1].loss # sampler[2].loss
    /\ heap[1]["attack_type"] = "snr-fgsm"
    /\ heap[2]["attack_type"] = "snr-fgsm"
    /\ "eps_scale" \in DOMAIN heap[2]

----------------------------------------------------------------------------
(* XVector.load, hyperion/torch/seq_embed/xvector.py lines 214-233 *)

\* The values whose type __init__ looks at: their type, and their repr as
\* text.
None == PyValue("NoneType", "None")

\* lines 20-29: the keyword parameters of XVector.__init__
XVectorParams ==
    {"num_classes", "pool_net", "embed_dim", "num_embed_layers", "hid_act",
     "loss_type", "s", "margin", "margin_warmup_epochs", "use_norm",
     "norm_before", "dropout_rate", "embed_layer", "in_feats", "proj_feats"}

\* lines 20-29: the parameters that have a default, with it
XVectorDefaults ==
    [pool_net |-> PyValue("str", "mean+stddev"),
     embed_dim |-> 256,
     num_embed_layers |-> 1,
     hid_act |-> [name |-> "relu", inplace |-> TRUE],
     loss_type |-> "arc-softmax",
     s |-> 64,
     margin |-> PyValue("float", "0.3"),
     margin_warmup_epochs |-> 0,
     use_norm |-> TRUE,
     norm_before |-> TRUE,
     dropout_rate |-> 0,
     embed_layer |-> 0,
     in_feats |-> None,
     proj_feats |-> None]

\* The encoders TorchNALoader.load may return, each by what its in_shape()
\* returns: three entries for 1d convolutions, four for 2d ones.
Encoders ==
    {[nnet |-> "tdnn", in_shape |-> <<None, PyValue("int", "40"), None>>],
     [nnet |-> "resnet", in_shape |-> <<None, PyValue("int", "1"), None, None>>],
     [nnet |-> "flat", in_shape |-> <<None, PyValue("int", "40")>>]}

\* lines 127-134: the types of pool_net that _make_pool_net takes
PoolNetTypes == {"str", "dict", "Module"}

\* lines 20-90: XVector(encoder_net, **kwargs).  The result is the
\* exception raised and, when there is none, the object made.  The calls
\* into the encoder, the pooling factory, TDNNBlock and ClassifHead are
\* taken to return; the object keeps the pool_net it was given and, as its
\* classif_net, the arguments ClassifHead was given.
XVector(encoder_net, kwargs) ==
    LET args == kwargs @@ XVectorDefaults
        in_shape == encoder_net.in_shape
        in_feats == IF Len(in_shape) = 3 THEN in_shape[2] ELSE args.in_feats
        exc ==
            IF DOMAIN kwargs \ XVectorParams # {}
                   \/ "num_classes" \notin DOMAIN kwargs
            THEN "TypeError"                              \* lines 20-29
            ELSE IF Len(in_shape) = 4 /\ args.in_feats = None
            THEN "AssertionError"                         \* line 45
            ELSE IF Len(in_shape) \notin {3, 4}
            THEN "UnboundLocalError"                      \* line 54
            ELSE IF args.pool_net.type \notin PoolNetTypes
            THEN "Exception"                              \* line 134
            ELSE "none"
        classif_net ==
            [k \in {"num_classes", "embed_dim", "num_embed_layers",
                    "hid_act", "loss_type", "s", "margin",
                    "margin_warmup_epochs", "use_norm", "norm_before",
                    "dropout_rate"} |-> args[k]]
    IN  IF exc # "none"
        THEN [raised |-> exc]
        ELSE [raised |-> "none",
              self |-> [encoder_net |-> encoder_net,
                        in_feats |-> in_feats,
                        proj_feats |-> args.proj_feats,
                        pool_net |-> args.pool_net,
                        classif_net |-> classif_net,
                        hid_act |-> args.hid_act,
                        use_norm |-> args.use_norm,
                        norm_before |-> args.norm_before,
                        dropout_rate |-> args.dropout_rate,
                        embed_layer |-> args.embed_layer]]

\* line 226: what  for k in ('encoder_cfg')  goes through.  The parentheses
\* make no tuple, so k takes the characters of the string.
DelKeys == <<"e", "n", "c", "o", "d", "e", "r", "_", "c", "f", "g">>

\* del d[k]
DelItem(d, k) == [j \in DOMAIN d \ {k} |-> d[j]]

\* One-character entries a cfg may hold besides the constructor's.
ExtraKeys ==
    {{}, {"e"}, {"e", "n"}, {"e", "n", "c", "o", "d"},
     {"e", "n", "c", "o", "d", "r", "_", "f", "g"}}

\* A cfg with 'encoder_cfg' and every parameter of the constructor
FullCfg(encoder, num_classes, pool_net, in_feats) ==
    [XVectorDefaults EXCEPT !.pool_net = pool_net, !.in_feats = in_feats]
        @@ [encoder_cfg |-> encoder, num_classes |-> num_classes]

\* The mappings line 216 hands to load as cfg.
LdCfgs ==
    LET full == {FullCfg(e, n, p, f) :
                    e \in Encoders, n \in {2, 10},
                    p \in {PyValue("str", "mean+stddev"), PyValue("int", "5")},
                    f \in {None, PyValue("int", "40")}}
    IN  {[k \in x |-> "x"] @@ c : c \in full, x \in ExtraKeys}
        \cup {DelItem(c, "encoder_cfg") : c \in full}
        \cup {DelItem(c, "num_classes") : c \in full}

LoadInit ==
    /\ SamplerInit
    /\ NoFilterCall
    /\ ld_pc = "encoder"
    /\ ld_given \in LdCfgs
    /\ ld_cfg = ld_given
    /\ ld_state_dict \in {"None", "weights"}
    /\ ld_k = 0
    /\ ld_encoder_net = "None"
    /\ ld_model = <<>>
    /\ ld_raised = "none"

\* an exception leaves load
LoadRaise(exc) ==
    /\ ld_raised' = exc
    /\ ld_pc' = "done"

\* line 224: encoder_net = TorchNALoader.load(cfg=cfg['encoder_cfg'])
LoadEncoder ==
    /\ ld_pc = "encoder"
    /\ IF "encoder_cfg" \in DOMAIN ld_cfg
       THEN /\ ld_encoder_net' = ld_cfg["encoder_cfg"]
            /\ ld_k' = 1
            /\ ld_pc' = "del"
            /\ UNCHANGED ld_raised
       ELSE /\ LoadRaise("KeyError")
            /\ UNCHANGED <<ld_encoder_net, ld_k>>
    /\ UNCHANGED <<ld_given, ld_cfg, ld_state_dict, ld_model>>
    /\ UNCHANGED <<samplerVars, cliVars>>

\* lines 226-233: one turn of the del loop and, after its last turn, the
\* construction of the model, the loading of its state and the return
DelKey ==
    /\ ld_pc = "del"
    /\ LET k == DelKeys[ld_k]
           cfg == DelItem(ld_cfg, k)
       IN  IF k \notin DOMAIN ld_cfg
           THEN /\ LoadRaise("KeyError")
                /\ UNCHANGED <<ld_cfg, ld_k, ld_model>>
           ELSE /\ ld_cfg' = cfg
                /\ IF ld_k < Len(DelKeys)
                   THEN /\ ld_k' = ld_k + 1
                        /\ UNCHANGED <<ld_pc, ld_model, ld_raised>>
                   ELSE IF XVector(ld_encoder_net, cfg).raised # "none"
                   THEN /\ LoadRaise(XVector(ld_encoder_net, cfg).raised)
                        /\ UNCHANGED <<ld_k, ld_model>>
                   ELSE /\ ld_model' = <<[encoder_net |-> ld_encoder_net,
                                           kwargs |-> cfg,
                                           self |-> XVector(ld_encoder_net, cfg).self,
                                           state_dict |-> ld_state_dict]>>
                        /\ ld_pc' = "done"
                        /\ UNCHANGED <<ld_k, ld_raised>>
    /\ UNCHANGED <<ld_given, ld_state_dict, ld_encoder_net>>
    /\ UNCHANGED <<samplerVars, cliVars>>

LoadNext == LoadEncoder \/ DelKey

LoadSpec == LoadInit /\ [][LoadNext]_vars

\* C14: given a cfg with 'encoder_cfg' and the constructor's parameters,
\* load removes exactly the 'encoder_cfg' entry and constructs the model
\* from the loaded encoder and the remaining entries, without raising.
\* Fails: the loop deletes cfg['e'], which raises KeyError.
C14_LoadRemovesEncoderCfg ==
    (/\ ld_pc = "done"
     /\ DOMAIN ld_given = XVectorParams \cup {"encoder_cfg"}) =>
        /\ ld_raised = "none"
        /\ ld_cfg = DelItem(ld_given, "encoder_cfg")
        /\ ld_model # <<>>
        /\ ld_model[1].encoder_net = ld_given["encoder_cfg"]
        /\ ld_model[1].kwargs = ld_cfg

====
